---------------------------- MODULE Spec2Model ----------------------------
(***************************************************************************)
(* A model of convert_to_ics.py: the time parser (parse_time), the part of *)
(* the line parser that handles time tokens (parse_lines) and the event    *)
(* grouper (group_multiday).                                               *)
(*                                                                         *)
(* Dates are day numbers.  A time of day is the pair <<hour, minute>>, an  *)
(* absent time (None) is the empty tuple.  A datetime is the number of     *)
(* minutes of local wall-clock time since day 0: all datetimes of the      *)
(* program carry the same tzinfo object, for which Python compares and     *)
(* adds on the wall clock.  A string is a sequence of one-character        *)
(* strings.  The url and description fields of a ParsedLine take no part   *)
(* in grouping or ordering and are left out of the grouper's records; raw, *)
(* the text of the line, is the line's position in the input.              *)
(***************************************************************************)
EXTENDS Integers, Sequences, FiniteSets, TLC

VARIABLES
    parsed,     \* group_multiday: the list of ParsedLine (its argument, then sorted)
    pc,         \* group_multiday: "sort", "pair", "single", "sortev", "done"
    i,          \* group_multiday: index of the record the current loop is at
    ongoing,    \* group_multiday: key -> list of pending (index, date) begins
    events,     \* group_multiday: the list of event dicts
    lines,      \* parse_lines: its argument
    li,         \* parse_lines: index of the line the loop is at
    records,    \* parse_lines: the list "parsed" it builds
    stderr      \* parse_lines: the warnings printed so far

vars == <<parsed, pc, i, ongoing, events, lines, li, records, stderr>>
gvars == <<parsed, pc, i, ongoing, events>>
pvars == <<lines, li, records, stderr>>

-----------------------------------------------------------------------------
(* Bounds and program constants *)

MaxRecs == 3            \* longest input of group_multiday
MaxLines == 2           \* longest input of parse_lines
MinutesPerDay == 1440   \* timedelta(days=1)
MinutesPerHour == 60    \* timedelta(hours=1)
SlugMax == 80           \* s2[:80]

Dates == {1, 2}
NoTime == <<>>

-----------------------------------------------------------------------------
(* slugify *)

UpperCase == <<"A","B","C","D","E","F","G","H","I","J","K","L","M",
               "N","O","P","Q","R","S","T","U","V","W","X","Y","Z">>
LowerCase == <<"a","b","c","d","e","f","g","h","i","j","k","l","m",
               "n","o","p","q","r","s","t","u","v","w","x","y","z">>
Digits == {"0","1","2","3","4","5","6","7","8","9"}

IsSpace(c) == c \in {" ", "\t"}

Lower(c) ==
    IF \E n \in 1..26 : UpperCase[n] = c
    THEN LowerCase[CHOOSE n \in 1..26 : UpperCase[n] = c]
    ELSE c

SlugChar(c) == c \in {LowerCase[n] : n \in 1..26} \cup Digits \cup {"_", "@", "-"}

RECURSIVE Strip(_)
Strip(s) ==
    IF s = <<>> THEN s
    ELSE IF IsSpace(Head(s)) THEN Strip(Tail(s))
    ELSE IF IsSpace(s[Len(s)]) THEN Strip(SubSeq(s, 1, Len(s) - 1))
    ELSE s

\* re.sub(r"\s+", "_", s): every maximal run of whitespace becomes one "_"
RECURSIVE SpacesToUnderscore(_)
SpacesToUnderscore(s) ==
    IF s = <<>> THEN s
    ELSE IF IsSpace(Head(s))
         THEN IF Len(s) > 1 /\ IsSpace(s[2])
              THEN SpacesToUnderscore(Tail(s))
              ELSE <<"_">> \o SpacesToUnderscore(Tail(s))
         ELSE <<Head(s)>> \o SpacesToUnderscore(Tail(s))

slugify(s) ==
    LET s1 == [n \in 1..Len(Strip(s)) |-> Lower(Strip(s)[n])]
        s2 == SelectSeq(SpacesToUnderscore(s1), SlugChar)
        s3 == SubSeq(s2, 1, IF Len(s2) < SlugMax THEN Len(s2) ELSE SlugMax)
    IN  IF s3 = <<>> THEN <<"e","v","e","n","t">> ELSE s3

-----------------------------------------------------------------------------
(* parse_time: the token "h:m" as the pair of its integers *)

\* parse_time with the hour test widened to 0..24
parse_time_lax(h, m) ==
    IF h = 24 /\ m = 0 THEN [ok |-> TRUE, t |-> <<0, 0>>, off |-> 1]
    ELSE IF 0 <= h /\ h <= 24 /\ 0 <= m /\ m <= 59
         THEN [ok |-> TRUE, t |-> <<h, m>>, off |-> 0]
         ELSE [ok |-> FALSE, t |-> NoTime, off |-> 0]

parse_time(h, m) ==
    IF h = 24 /\ m = 0 THEN [ok |-> TRUE, t |-> <<0, 0>>, off |-> 1]
    ELSE IF 0 <= h /\ h <= 23 /\ 0 <= m /\ m <= 59
         THEN [ok |-> TRUE, t |-> <<h, m>>, off |-> 0]
         ELSE [ok |-> FALSE, t |-> NoTime, off |-> 0]

-----------------------------------------------------------------------------
(* ParsedLine *)

ParsedLine(dt, start, start_offset, end, end_offset, summary, raw, is_begin, is_end) ==
    [dt |-> dt, raw |-> raw, start |-> start, start_offset |-> start_offset,
     end |-> end, end_offset |-> end_offset, summary |-> summary,
     is_begin |-> is_begin, is_end |-> is_end, consumed |-> FALSE]

-----------------------------------------------------------------------------
(* Stable sorting, as sorted() and list.sort() do it, from the sequence of  *)
(* the elements' keys: the positions of the elements in their sorted       *)
(* order.  The element at position k goes to the place that counts the     *)
(* elements of smaller key and the earlier elements of equal key.          *)

\* the order of a sort that reverses the elements of equal key
UnstableOrder(keys) ==
    LET Rank(k) == 1 + Cardinality({j \in 1..Len(keys) :
                        \/ keys[j] < keys[k]
                        \/ keys[j] = keys[k] /\ j > k})
    IN  [r \in 1..Len(keys) |-> CHOOSE k \in 1..Len(keys) : Rank(k) = r]

StableOrder(keys) ==
    LET Rank(k) == 1 + Cardinality({j \in 1..Len(keys) :
                        \/ keys[j] < keys[k]
                        \/ keys[j] = keys[k] /\ j < k})
    IN  [r \in 1..Len(keys) |-> CHOOSE k \in 1..Len(keys) : Rank(k) = r]

\* the input left in the order given
UnsortedByDate(recs) == recs

\* parsed = sorted(parsed, key=lambda p: p.dt)
SortByDate(recs) ==
    LET order == StableOrder([k \in 1..Len(recs) |-> recs[k].dt])
    IN  [r \in 1..Len(recs) |-> recs[order[r]]]

-----------------------------------------------------------------------------
(* Events.  src and bsrc are not fields of the program's dicts: they       *)
(* record which records (indices in the sorted list) an event was built    *)
(* from, src the record being processed and bsrc the begin of a span.      *)

combine(d, t) == d * MinutesPerDay + t[1] * MinutesPerHour + t[2]

Or(a, b) == IF a # <<>> THEN a ELSE b

MultidayEvent(start_date, start_parsed, p, start_index, idx) ==
    [type |-> "multiday", dtstart |-> start_date, dtend |-> p.dt + 1,
     summary |-> Or(start_parsed.summary, p.summary),
     src |-> idx, bsrc |-> start_index]

\* the unmatched-end event with the date copied as its end
UnmatchedEndEventVerbatim(p, idx) ==
    [type |-> "allday", dtstart |-> p.dt, dtend |-> p.dt,
     summary |-> p.summary, src |-> idx, bsrc |-> 0]

UnmatchedEndEvent(p, idx) ==
    [type |-> "allday", dtstart |-> p.dt, dtend |-> p.dt + 1,
     summary |-> p.summary, src |-> idx, bsrc |-> 0]

TimedEvent(p, idx) ==
    LET start_dt == combine(p.dt + p.start_offset, Or(p.start, <<0, 0>>))
        end_dt0  == IF p.end # NoTime
                    THEN combine(p.dt + p.end_offset, p.end)
                    ELSE start_dt + MinutesPerHour
        end_dt   == IF end_dt0 <= start_dt THEN end_dt0 + MinutesPerDay ELSE end_dt0
    IN  [type |-> "timed", dtstart |-> start_dt, dtend |-> end_dt,
         summary |-> p.summary, src |-> idx, bsrc |-> 0]

AllDayEvent(p, idx) ==
    [type |-> "allday", dtstart |-> p.dt, dtend |-> p.dt + 1,
     summary |-> p.summary, src |-> idx, bsrc |-> 0]

\* a sort key that drops the time of day
sort_key_date_only(ev) ==
    IF ev.type = "timed" THEN (ev.dtstart \div MinutesPerDay) * MinutesPerDay
    ELSE combine(ev.dtstart, <<0, 0>>)

sort_key(ev) ==
    IF ev.type = "timed" THEN ev.dtstart
    ELSE combine(ev.dtstart, <<0, 0>>)

\* the events sorted by a sort that is not stable
SortedEventsUnstable(evs) ==
    LET order == UnstableOrder([k \in 1..Len(evs) |-> sort_key(evs[k])])
    IN  [r \in 1..Len(evs) |-> evs[order[r]]]

\* events.sort(key=sort_key)
SortedEvents(evs) ==
    LET order == StableOrder([k \in 1..Len(evs) |-> sort_key(evs[k])])
    IN  [r \in 1..Len(evs) |-> evs[order[r]]]

-----------------------------------------------------------------------------
(* group_multiday *)

\* pop() without the index: the newest pending begin
PopLast(q) == Len(q)

\* ongoing[key].pop(0)
PopPos(q) == 1

RemoveAt(q, n) == SubSeq(q, 1, n - 1) \o SubSeq(q, n + 1, Len(q))

\* range(start_index, i)
ConsumedRangeExclusive(start_index, idx) == start_index..(idx - 1)

\* range(start_index, i+1)
ConsumedRange(start_index, idx) == start_index..idx

\* the lowercased summary compared with the key
SameSummary(p, key) == [n \in 1..Len(p.summary) |-> Lower(p.summary[n])] = key

\* slugify(parsed[j].summary) == key
SameKey(p, key) == slugify(p.summary) = key

MarkConsumed(recs, S) ==
    [j \in 1..Len(recs) |-> IF j \in S THEN [recs[j] EXCEPT !.consumed = TRUE]
                            ELSE recs[j]]

\* "key in ongoing and ongoing[key]"
Pending(key) == key \in DOMAIN ongoing /\ ongoing[key] # <<>>

\* ongoing.setdefault(key, []).append(x)
SetDefaultAppend(d, key, x) ==
    IF key \in DOMAIN d THEN [d EXCEPT ![key] = Append(@, x)]
    ELSE d @@ (key :> <<x>>)

\* the end of one iteration of a for loop over parsed
NextRecord(after) ==
    IF i < Len(parsed) THEN i' = i + 1 /\ pc' = pc
    ELSE i' = 1 /\ pc' = after

SortInput ==
    /\ pc = "sort"
    /\ parsed' = SortByDate(parsed)
    /\ pc' = "pair"
    /\ i' = 1
    /\ UNCHANGED <<ongoing, events>>

PairBegin ==
    /\ pc = "pair"
    /\ parsed[i].is_begin
    /\ LET p == parsed[i]
           key == slugify(p.summary)
       IN  /\ ongoing' = SetDefaultAppend(ongoing, key, <<i, p.dt>>)
           /\ parsed' = MarkConsumed(parsed, {i})
    /\ NextRecord("single")
    /\ UNCHANGED events

PairEndMatched ==
    /\ pc = "pair"
    /\ ~parsed[i].is_begin
    /\ parsed[i].is_end
    /\ Pending(slugify(parsed[i].summary))
    /\ LET p == parsed[i]
           key == slugify(p.summary)
           pos == PopPos(ongoing[key])
           start_index == ongoing[key][pos][1]
           start_date == ongoing[key][pos][2]
       IN  /\ ongoing' = [ongoing EXCEPT ![key] = RemoveAt(@, pos)]
           /\ parsed' = MarkConsumed(parsed,
                  {j \in ConsumedRange(start_index, i) : SameKey(parsed[j], key)})
           /\ events' = Append(events,
                  MultidayEvent(start_date, parsed[start_index], p, start_index, i))
    /\ NextRecord("single")

PairEndUnmatched ==
    /\ pc = "pair"
    /\ ~parsed[i].is_begin
    /\ parsed[i].is_end
    /\ ~Pending(slugify(parsed[i].summary))
    /\ parsed' = MarkConsumed(parsed, {i})
    /\ events' = Append(events, UnmatchedEndEvent(parsed[i], i))
    /\ NextRecord("single")
    /\ UNCHANGED ongoing

PairOther ==
    /\ pc = "pair"
    /\ ~parsed[i].is_begin
    /\ ~parsed[i].is_end
    /\ NextRecord("single")
    /\ UNCHANGED <<parsed, ongoing, events>>

SingleConsumed ==
    /\ pc = "single"
    /\ parsed[i].consumed
    /\ NextRecord("sortev")
    /\ UNCHANGED <<parsed, ongoing, events>>

SingleTimed ==
    /\ pc = "single"
    /\ ~parsed[i].consumed
    /\ ~(parsed[i].start = NoTime /\ parsed[i].end = NoTime)
    /\ events' = Append(events, TimedEvent(parsed[i], i))
    /\ NextRecord("sortev")
    /\ UNCHANGED <<parsed, ongoing>>

SingleAllDay ==
    /\ pc = "single"
    /\ ~parsed[i].consumed
    /\ parsed[i].start = NoTime /\ parsed[i].end = NoTime
    /\ events' = Append(events, AllDayEvent(parsed[i], i))
    /\ NextRecord("sortev")
    /\ UNCHANGED <<parsed, ongoing>>

SortEvents ==
    /\ pc = "sortev"
    /\ events' = SortedEvents(events)
    /\ pc' = "done"
    /\ UNCHANGED <<parsed, i, ongoing>>

-----------------------------------------------------------------------------
(* The inputs of group_multiday: records as parse_lines builds them *)

\* titles of the begin- and end-marked lines, and of the unmarked lines: "ski!"
\* has the slug of "Ski"
MarkedTitles == {<<"S","k","i">>, <<"g","y","m">>}
PlainTitles == {<<"s","k","i","!">>, <<"g","y","m">>}

\* the start and end tokens of the timed lines
TimeRanges == {<< <<24, 0>>, <<0, 0>> >>, << <<23, 30>>, <<0, 10>> >>,
               << <<0, 0>>, NoTime >>}

TimedLine(d, r, title) ==
    LET s == parse_time(r[1][1], r[1][2])
        e == IF r[2] = NoTime THEN [ok |-> TRUE, t |-> NoTime, off |-> 0]
             ELSE parse_time(r[2][1], r[2][2])
    IN  ParsedLine(d, s.t, s.off, e.t, e.off, title, 0, FALSE, FALSE)

InputRecords ==
    {ParsedLine(d, NoTime, 0, NoTime, 0, t, 0, m[1], m[2]) :
        d \in Dates, t \in MarkedTitles, m \in {<<TRUE, FALSE>>, <<FALSE, TRUE>>}}
    \cup {ParsedLine(d, NoTime, 0, NoTime, 0, t, 0, FALSE, FALSE) :
        d \in Dates, t \in PlainTitles}
    \cup {TimedLine(1, r, <<"g","y","m">>) : r \in TimeRanges}

GroupIdle ==
    /\ parsed = <<>> /\ pc = "idle" /\ i = 1 /\ ongoing = <<>> /\ events = <<>>

ParseIdle ==
    /\ lines = <<>> /\ li = 1 /\ records = <<>> /\ stderr = <<>>

Init ==
    /\ \E n \in 1..MaxRecs : \E f \in [1..n -> InputRecords] :
           parsed = [k \in 1..n |-> [f[k] EXCEPT !.raw = k]]
    /\ pc = "sort"
    /\ i = 1
    /\ ongoing = <<>>
    /\ events = <<>>
    /\ ParseIdle

Next ==
    /\ \/ SortInput
       \/ PairBegin
       \/ PairEndMatched
       \/ PairEndUnmatched
       \/ PairOther
       \/ SingleConsumed
       \/ SingleTimed
       \/ SingleAllDay
       \/ SortEvents
    /\ UNCHANGED pvars

Spec == Init /\ [][Next]_vars

-----------------------------------------------------------------------------
(* parse_lines, as far as time tokens decide it.  A line is what the       *)
(* regular expressions find in it: whether DATE_RE matches a valid date    *)
(* (dated), and the two groups of TIME_RANGE_RE as pairs of integers       *)
(* (start_s, end_s; NoTime for a group that did not match).  raw, the      *)
(* line's text, is its position in the input.                              *)

\* the tokens \d{1,2}:\d{2} tried
TimeTokens == {<<0, 0>>, <<23, 59>>, <<24, 0>>, <<24, 30>>, <<25, 0>>, <<9, 60>>}

InputLines ==
    {[dated |-> FALSE, dt |-> 1, start_s |-> NoTime, end_s |-> NoTime]}
    \cup {[dated |-> TRUE, dt |-> 1, start_s |-> s, end_s |-> e] :
             s \in TimeTokens, e \in TimeTokens \cup {NoTime}}
    \cup {[dated |-> TRUE, dt |-> 1, start_s |-> NoTime, end_s |-> NoTime]}

ParsedRecord(raw, dt, start, start_offset, end, end_offset) ==
    [raw |-> raw, dt |-> dt, start |-> start, start_offset |-> start_offset,
     end |-> end, end_offset |-> end_offset]

\* a line that is blank, a code fence or without a valid leading date
ParseSkip ==
    /\ li <= Len(lines)
    /\ ~lines[li].dated
    /\ li' = li + 1
    /\ UNCHANGED <<records, stderr>>

ParseNoTime ==
    /\ li <= Len(lines)
    /\ lines[li].dated
    /\ lines[li].start_s = NoTime
    /\ records' = Append(records, ParsedRecord(li, lines[li].dt, NoTime, 0, NoTime, 0))
    /\ li' = li + 1
    /\ UNCHANGED stderr

ParseBadStart ==
    /\ li <= Len(lines)
    /\ lines[li].dated
    /\ lines[li].start_s # NoTime
    /\ ~parse_time(lines[li].start_s[1], lines[li].start_s[2]).ok
    /\ stderr' = Append(stderr, <<"invalid start time", li>>)
    /\ li' = li + 1
    /\ UNCHANGED records

ParseBadEnd ==
    /\ li <= Len(lines)
    /\ lines[li].dated
    /\ lines[li].start_s # NoTime
    /\ parse_time(lines[li].start_s[1], lines[li].start_s[2]).ok
    /\ lines[li].end_s # NoTime
    /\ ~parse_time(lines[li].end_s[1], lines[li].end_s[2]).ok
    /\ stderr' = Append(stderr, <<"invalid end time", li>>)
    /\ li' = li + 1
    /\ UNCHANGED records

ParseTimed ==
    /\ li <= Len(lines)
    /\ lines[li].dated
    /\ lines[li].start_s # NoTime
    /\ LET s == parse_time(lines[li].start_s[1], lines[li].start_s[2])
           e == IF lines[li].end_s = NoTime THEN [ok |-> TRUE, t |-> NoTime, off |-> 0]
                ELSE parse_time(lines[li].end_s[1], lines[li].end_s[2])
       IN  /\ s.ok
           /\ e.ok
           /\ records' = Append(records,
                  ParsedRecord(li, lines[li].dt, s.t, s.off, e.t, e.off))
    /\ li' = li + 1
    /\ UNCHANGED stderr

InitParse ==
    /\ \E n \in 1..MaxLines : lines \in [1..n -> InputLines]
    /\ li = 1
    /\ records = <<>>
    /\ stderr = <<>>
    /\ GroupIdle

NextParse ==
    /\ \/ ParseSkip
       \/ ParseNoTime
       \/ ParseBadStart
       \/ ParseBadEnd
       \/ ParseTimed
    /\ UNCHANGED lines
    /\ UNCHANGED gvars

SpecParse == InitParse /\ [][NextParse]_vars


-----------------------------------------------------------------------------
(* Vocabulary of the properties *)

Recs == 1..Len(parsed)
Evs == 1..Len(events)

\* the effective start instant of an event: a date counts as its local midnight
EffStart(e) == IF e.type = "timed" THEN e.dtstart ELSE e.dtstart * MinutesPerDay

\* the pairing loop is at an end-marked record, and whether a begin is pending for it
AtEnd == pc = "pair" /\ ~parsed[i].is_begin /\ parsed[i].is_end
KeyAtI == slugify(parsed[i].summary)
HasPending == KeyAtI \in DOMAIN ongoing /\ ongoing[KeyAtI] # <<>>

LastEvent(evs) == evs[Len(evs)]

\* an event that record j alone gave rise to (timed or all-day)
SingleEventOf(j) == \E n \in Evs : events[n].src = j /\ events[n].type # "multiday"

\* the events a record is a source of
EventsOf(k) == {n \in Evs : events[n].src = k \/ events[n].bsrc = k}

\* the first record (in the date-sorted list) an event was built from
FirstSrc(e) == IF e.bsrc # 0 THEN e.bsrc ELSE e.src

\* the place of an event in the order in which group_multiday creates events:
\* those of the pairing loop, by end record, then those of the final pass
Created(e) == IF parsed[e.src].is_end THEN e.src ELSE Len(parsed) + e.src

-----------------------------------------------------------------------------
\* the step that matches an end-marked record with a pending begin
C1_Match ==
    (AtEnd /\ HasPending) =>
        LET e == LastEvent(events')
        IN  /\ events' = Append(events, e)
            /\ e.type = "multiday"
            /\ \E n \in 1..Len(ongoing[KeyAtI]) :
                   ongoing[KeyAtI][n] = <<e.bsrc, parsed[e.bsrc].dt>>
            /\ parsed[e.bsrc].is_begin
            /\ slugify(parsed[e.bsrc].summary) = KeyAtI
            /\ e.src = i
            /\ e.dtstart = parsed[e.bsrc].dt
            /\ e.dtend = parsed[i].dt + 1
            /\ \A j \in e.bsrc..i :
                   slugify(parsed[j].summary) = KeyAtI => parsed'[j].consumed

\* the records of a span never give rise to events of their own
C1_Excluded ==
    \A n \in Evs : events[n].type = "multiday" =>
        \A j \in events[n].bsrc..events[n].src :
            slugify(parsed[j].summary) = slugify(parsed[events[n].src].summary)
                => parsed[j].consumed /\ ~SingleEventOf(j)

(* C1: when an end-marked record is matched with a pending begin of its    *)
(* key, exactly one event is appended, a multi-day event that starts on    *)
(* the begin's date and ends the day after the end's date; and every       *)
(* record from the begin to the end (inclusive) whose slug is the key is   *)
(* consumed and never gives rise to an event of its own.                   *)
C1_MultidaySpan == [][C1_Match]_vars /\ []C1_Excluded

\* a finished run with a span around an unmarked line of the same slug but
\* another title
C1_Witness ==
    /\ pc = "done"
    /\ \E n \in Evs : \E j \in Recs :
          /\ events[n].type = "multiday"
          /\ events[n].bsrc < j /\ j < events[n].src
          /\ ~parsed[j].is_begin /\ ~parsed[j].is_end
          /\ slugify(parsed[j].summary) = slugify(parsed[events[n].src].summary)
          /\ parsed[j].summary # parsed[events[n].src].summary
          /\ parsed[j].summary # parsed[events[n].bsrc].summary

-----------------------------------------------------------------------------
(* C2: every timed event ends strictly after it starts.                    *)

C2_PositiveDuration ==
    \A n \in Evs : events[n].type = "timed" => events[n].dtend > events[n].dtstart

-----------------------------------------------------------------------------
(* C3: the returned events are in ascending order of effective start.      *)

C3_SortedByStart ==
    pc = "done" =>
        \A a, b \in Evs : a < b => EffStart(events[a]) <= EffStart(events[b])

\* a timed event returned before a multi-day event that was created before it
C3_Witness ==
    /\ pc = "done"
    /\ \E a, b \in Evs :
          /\ a < b
          /\ events[a].type = "timed"
          /\ events[b].type = "multiday"
          /\ EffStart(events[a]) < EffStart(events[b])

-----------------------------------------------------------------------------
(* C4, as claimed: returned events of equal effective start are in the     *)
(* order of their source records in the date-sorted input.  (A multi-day   *)
(* event is given its earliest source, the begin.)                         *)

C4_TiesInInputOrder ==
    pc = "done" =>
        \A a, b \in Evs :
            (a < b /\ EffStart(events[a]) = EffStart(events[b]))
                => FirstSrc(events[a]) < events[b].src

(* C4, amended: returned events of equal effective start are in the order  *)
(* in which they were created: the multi-day and unmatched-end events, by  *)
(* end record, before the events of the final pass, by record.             *)

C4_TiesInCreationOrder ==
    pc = "done" =>
        \A a, b \in Evs :
            (a < b /\ EffStart(events[a]) = EffStart(events[b]))
                => Created(events[a]) < Created(events[b])

\* a multi-day or unmatched-end event returned before an event of equal start
\* whose record comes before all of its own
C4_Witness ==
    /\ pc = "done"
    /\ \E a, b \in Evs :
          /\ a < b
          /\ EffStart(events[a]) = EffStart(events[b])
          /\ parsed[events[a].src].is_end
          /\ ~parsed[events[b].src].is_end
          /\ events[b].src < FirstSrc(events[a])

-----------------------------------------------------------------------------
(* The time tokens parse_time is to accept, and what it is to return *)

InRange(tok) == 0 <= tok[1] /\ tok[1] <= 23 /\ 0 <= tok[2] /\ tok[2] <= 59
Accepted(tok) == InRange(tok) \/ tok = <<24, 0>>
TimeOf(tok) == IF tok = NoTime THEN NoTime ELSE IF InRange(tok) THEN tok ELSE <<0, 0>>
OffsetOf(tok) == IF tok = <<24, 0>> THEN 1 ELSE 0

Rejected(l) ==
    /\ l.dated
    /\ l.start_s # NoTime
    /\ ~Accepted(l.start_s) \/ (l.end_s # NoTime /\ ~Accepted(l.end_s))

(* C5: parse_lines gives a record to exactly the dated lines whose time    *)
(* tokens are each H:MM with 0<=H<=23 and 0<=M<=59, or 24:00, in the order *)
(* of the lines; the record holds exactly that time with day offset 0, and *)
(* 00:00 with day offset 1 for 24:00; every dated line with another token  *)
(* gives no record and one warning.                                        *)
C5_ParseTime ==
    LET read == 1..(li - 1)
    IN  /\ \A k \in read :
              Cardinality({n \in 1..Len(stderr) : stderr[n][2] = k})
                  = IF Rejected(lines[k]) THEN 1 ELSE 0
        /\ {records[n].raw : n \in 1..Len(records)}
              = {k \in read : lines[k].dated /\ ~Rejected(lines[k])}
        /\ \A a, b \in 1..Len(records) : a < b => records[a].raw < records[b].raw
        /\ \A n \in 1..Len(records) :
              LET l == lines[records[n].raw]
              IN  /\ records[n].start = TimeOf(l.start_s)
                  /\ records[n].start_offset = OffsetOf(l.start_s)
                  /\ records[n].end = TimeOf(l.end_s)
                  /\ records[n].end_offset = OffsetOf(l.end_s)

\* a rejected line followed by a line that ends at 24:00
C5_Witness ==
    /\ li > Len(lines)
    /\ Len(lines) = 2
    /\ Rejected(lines[1])
    /\ Len(stderr) = 1
    /\ Len(records) = 1
    /\ records[1].raw = 2
    /\ records[1].end = <<0, 0>> /\ records[1].end_offset = 1
    /\ records[1].start = <<23, 59>> /\ records[1].start_offset = 0

-----------------------------------------------------------------------------
\* the step at an end-marked record with no pending begin
C6_Step ==
    (AtEnd /\ ~HasPending) =>
        LET e == LastEvent(events')
        IN  /\ events' = Append(events, e)
            /\ e.type = "allday"
            /\ e.src = i
            /\ e.dtstart = parsed[i].dt
            /\ e.dtend = parsed[i].dt + 1
            /\ ongoing' = ongoing

(* C6: at an end-marked record with no pending begin of its key, exactly   *)
(* one event is appended, an all-day event from the record's date to the   *)
(* day after, and the pending begins stay as they are.                     *)
C6_UnmatchedEnd == [][C6_Step]_vars

\* an unmatched end after a span of the same key was closed
C6_Witness ==
    \E a, m \in Evs :
        /\ events[m].type = "multiday"
        /\ events[a].type = "allday"
        /\ parsed[events[a].src].is_end
        /\ events[a].src > events[m].src
        /\ slugify(parsed[events[a].src].summary) = slugify(parsed[events[m].src].summary)
        /\ ongoing[slugify(parsed[events[a].src].summary)] = <<>>

-----------------------------------------------------------------------------
(* C7: every all-day and multi-day event ends on a later date than it      *)
(* starts, and the end record of a multi-day event is not dated before its *)
(* begin record.                                                           *)

C7_DatesAscend ==
    \A n \in Evs : events[n].type # "timed" =>
        /\ events[n].dtend > events[n].dtstart
        /\ events[n].type = "multiday" =>
               parsed[events[n].src].dt >= parsed[events[n].bsrc].dt

\* a span whose end line came before its begin line in the input
C7_Witness ==
    \E n \in Evs :
        /\ events[n].type = "multiday"
        /\ parsed[events[n].src].raw < parsed[events[n].bsrc].raw
        /\ events[n].dtend > events[n].dtstart + 1

-----------------------------------------------------------------------------
\* the step that pops a pending begin
C8_Step ==
    (AtEnd /\ HasPending) =>
        LET q == ongoing[KeyAtI]
            e == LastEvent(events')
        IN  /\ Len(events') = Len(events) + 1
            /\ e.bsrc = q[1][1]
            /\ \A n \in 2..Len(q) : q[n][1] > e.bsrc
            /\ DOMAIN ongoing' = DOMAIN ongoing
            /\ ongoing'[KeyAtI] = Tail(q)
            /\ \A k \in DOMAIN ongoing \ {KeyAtI} : ongoing'[k] = ongoing[k]

(* C8: a matched end takes the oldest pending begin of its key, the one of *)
(* smallest index, off the front of the key's queue, and leaves the        *)
(* queues of the other keys as they are.                                   *)
C8_Fifo == [][C8_Step]_vars

\* a span closed while a later begin of its key was pending, and is still
C8_Witness ==
    \E n \in Evs :
        /\ events[n].type = "multiday"
        /\ LET q == ongoing[slugify(parsed[events[n].src].summary)]
           IN  /\ q # <<>>
               /\ events[n].bsrc < q[1][1]
               /\ q[1][1] < events[n].src

-----------------------------------------------------------------------------
(* C9: in the returned events every begin-marked record is consumed, gave  *)
(* rise to no event of its own, and a multi-day event starts on its date.  *)

C9_BeginReemitted ==
    pc = "done" =>
        \A k \in Recs : parsed[k].is_begin =>
            /\ parsed[k].consumed
            /\ ~SingleEventOf(k)
            /\ \E n \in Evs : events[n].type = "multiday"
                              /\ events[n].dtstart = parsed[k].dt

-----------------------------------------------------------------------------
\* what holds of the sources of the events, and of a step of the final pass
C10_Sources ==
    /\ \A k \in Recs : Cardinality(EventsOf(k)) <= 1
    /\ Len(events) <= Len(parsed)

C10_FinalPass == (pc = "single" /\ parsed[i].consumed) => events' = events

(* C10: a record is a source of at most one event, the final pass appends  *)
(* nothing for a consumed record, and there are never more events than     *)
(* records.                                                                *)
C10_NoDoubleEmission == []C10_Sources /\ [][C10_FinalPass]_vars

\* three records, two events: a span and a timed event
C10_Witness ==
    /\ pc = "done"
    /\ Len(parsed) = 3
    /\ Len(events) = 2
    /\ \E n \in Evs : events[n].type = "multiday"
    /\ \E n \in Evs : events[n].type = "timed"

=============================================================================
